---- MODULE Spec2Model ----
(***************************************************************************)
(* Model of rslib/src/scheduler/states/steps.rs: LearningSteps, the        *)
(* learning-step delay calculator of the scheduler.                        *)
(*                                                                         *)
(* A u32 is kept at its full width.  TLC integers are 32-bit signed, so a  *)
(* u32 is a pair of 16-bit limbs [hi, lo] with value hi * 2^16 + lo.       *)
(* An f32 step is m * 2^e (or NaN); the samples are chosen so that the     *)
(* f32 product v * 60.0 is exact (m * 60 < 2^24).                          *)
(* Option<T> is a sequence: None is << >> and Some(x) is << x >>.          *)
(*                                                                         *)
(* steps     the borrowed slice of step lengths, in minutes                *)
(* counter   the card's progress counter, the `remaining` argument         *)
(* call, ret the method called last and the value it returned              *)
(* run       Good ratings since the last Again, -1 before the first Again  *)
(* graduated the card has left learning (a Good found no next step)        *)
(***************************************************************************)
EXTENDS Integers, Sequences, FiniteSets, TLC

VARIABLES steps, counter, run, graduated, call, ret

vars == <<steps, counter, run, graduated, call, ret>>

----------------------------------------------------------------------------
(* Bounds of the model *)

\* longest step sequence that is enumerated over every sample value
MaxLen == 2
\* longest step sequence that is enumerated over the whole-minute samples
MaxCoreLen == 4
\* largest low-digit value of an enumerated progress counter
MaxRem == 5
\* largest lapse count (digits above the low three) of an enumerated counter
MaxLapse == 1

----------------------------------------------------------------------------
(* Option<T> *)

None == << >>
Some(x) == << x >>
IsSome(o) == Len(o) = 1

(* u32 as two 16-bit limbs *)

Limb == 65536
U32(n) == [hi |-> n \div Limb, lo |-> n % Limb]
U32Max == [hi |-> Limb - 1, lo |-> Limb - 1]
U32Zero == U32(0)

\* u32::wrapping_add, what `+` does in a release build
wrapping_add(a, b) ==
    LET lo == a.lo + b.lo
        hi == a.hi + b.hi + (lo \div Limb)
    IN  [hi |-> hi % Limb, lo |-> lo % Limb]

\* u32::saturating_add
saturating_add(a, b) ==
    LET lo == a.lo + b.lo
        hi == a.hi + b.hi + (lo \div Limb)
    IN  IF hi >= Limb THEN U32Max ELSE [hi |-> hi, lo |-> lo % Limb]

\* u32::saturating_mul, for the multiplier 2 and the shifts of a float cast
saturating_mul(a, k) ==
    LET lo == a.lo * k
        hi == a.hi * k + (lo \div Limb)
    IN  IF hi >= Limb THEN U32Max ELSE [hi |-> hi, lo |-> lo % Limb]

\* u32 division by 2
div2(a) == [hi |-> a.hi \div 2, lo |-> (a.hi % 2) * (Limb \div 2) + (a.lo \div 2)]

----------------------------------------------------------------------------
(* f32 step values, in minutes *)

F32(m, e) == [k |-> "fin", neg |-> FALSE, m |-> m, e |-> e]
NaN == [k |-> "nan", neg |-> FALSE, m |-> 0, e |-> 0]
MinusOne == [k |-> "fin", neg |-> TRUE, m |-> 1, e |-> 0]   \* -1.0
Zero == F32(0, 0)            \* 0.0
Tiny == F32(1, -5)           \* 0.03125 min = 1.875 s
Eighth == F32(1, -3)         \* 0.125 min   = 7.5 s
One == F32(1, 0)             \* 1.0
Ten == F32(5, 1)             \* 10.0
Hundred == F32(25, 2)        \* 100.0
Big == F32(390625, 7)        \* 50_000_000.0 min = 3_000_000_000 s
Huge == F32(1, 27)           \* 2^27 min, more than u32::MAX seconds

F32Samples == {NaN, MinusOne, Zero, Tiny, Eighth, One, Ten, Big, Huge}
CoreSamples == {One, Ten, Hundred}

RECURSIVE Pow2(_)
Pow2(n) == IF n = 0 THEN 1 ELSE 2 * Pow2(n - 1)

\* v * 60.0 in f32: 60 = 15 * 2^2, exact for the sampled mantissas
f32_mul_60(v) ==
    IF v.k = "nan" THEN v
    ELSE [k |-> "fin", neg |-> v.neg, m |-> v.m * 15, e |-> v.e + 2]

RECURSIVE shl_sat(_, _)
shl_sat(a, n) ==
    IF n < 8 THEN saturating_mul(a, Pow2(n))
    ELSE shl_sat(saturating_mul(a, 256), n - 8)

\* `as u32` of an f32: NaN is 0, the fraction is dropped, the result
\* saturates at both ends of the u32 range
f32_as_u32(v) ==
    IF v.k = "nan" THEN U32Zero
    ELSE IF v.neg THEN U32Zero
    ELSE IF v.e <= 0 THEN U32(v.m \div Pow2(0 - v.e))
    ELSE shl_sat(U32(v.m), v.e)

to_secs(v) == f32_as_u32(f32_mul_60(v))

DEFAULT_SECS_IF_MISSING == 60

Modulus == 1000

----------------------------------------------------------------------------
(* impl LearningSteps; `self` is the slice of steps, indices are 0-based *)

\* usize::saturating_sub
saturating_sub(a, b) == IF a >= b THEN a - b ELSE 0

min(a, b) == IF a <= b THEN a ELSE b

\* get_index without the final `.min(total - 1)`
get_index_unclamped(self, remaining) ==
    saturating_sub(Len(self), remaining % Modulus)

\* get_index without stripping the digits above the low three
get_index_unstripped(self, remaining) ==
    LET total == Len(self)
    IN  min(saturating_sub(total, remaining), saturating_sub(total, 1))

\* get_index sending every out-of-range counter to the last index
get_index_last(self, remaining) ==
    LET total == Len(self)
        r == remaining % Modulus
    IN  IF r = 0 \/ r > total THEN saturating_sub(total, 1) ELSE total - r

get_index(self, remaining) ==
    LET total == Len(self)
    IN  min(saturating_sub(total, remaining % Modulus), saturating_sub(total, 1))

\* self.steps.get(index).copied().map(to_secs)
secs_at_index(self, index) ==
    IF index < Len(self) THEN Some(to_secs(self[index + 1])) ELSE None

\* again_delay_secs_learn with unwrap_or_default()
again_delay_secs_learn_default(self) ==
    LET o == secs_at_index(self, 0)
    IN  IF IsSome(o) THEN o[1] ELSE U32Zero

again_delay_secs_learn(self) ==
    LET o == secs_at_index(self, 0)
    IN  IF IsSome(o) THEN o[1] ELSE U32(DEFAULT_SECS_IF_MISSING)

again_delay_secs_relearn(self) == secs_at_index(self, 0)

hard_delay_secs(self, remaining) ==
    LET idx == get_index(self, remaining)
        at == secs_at_index(self, idx)
        first == IF Len(self) > 0 THEN Some(to_secs(self[1])) ELSE None
        cur == IF IsSome(at) THEN at ELSE first
    IN  IF ~IsSome(cur) THEN None
        ELSE LET current == cur[1]
             IN  IF idx = 0
                 THEN LET nx == secs_at_index(self, idx + 1)
                          next == IF IsSome(nx) THEN nx[1]
                                  ELSE saturating_mul(current, 2)
                      IN  Some(div2(saturating_add(current, next)))
                 ELSE Some(current)

\* good_delay_secs reading the current step instead of the next one
good_delay_secs_current(self, remaining) ==
    LET idx == get_index(self, remaining)
    IN  secs_at_index(self, idx)

good_delay_secs(self, remaining) ==
    LET idx == get_index(self, remaining)
    IN  secs_at_index(self, idx + 1)

current_delay_secs(self, remaining) ==
    LET idx == get_index(self, remaining)
        o == secs_at_index(self, idx)
    IN  IF IsSome(o) THEN o[1] ELSE U32Zero

\* remaining_for_good without the `+ 1`
remaining_for_good_same(self, remaining) ==
    LET idx == get_index(self, remaining)
    IN  saturating_sub(Len(self), idx)

remaining_for_good(self, remaining) ==
    LET idx == get_index(self, remaining)
    IN  saturating_sub(Len(self), idx + 1)

\* remaining_for_failed counting the steps after the first
remaining_for_failed_short(self) == saturating_sub(Len(self), 1)

remaining_for_failed(self) == Len(self)

----------------------------------------------------------------------------
(* Inputs *)

LongLens == {Modulus - 1, Modulus}

StepSeqs ==
    UNION {[1..n -> F32Samples] : n \in 0..MaxLen}
    \cup UNION {[1..n -> CoreSamples] : n \in 1..MaxCoreLen}
    \cup {[i \in 1..n |-> One] : n \in LongLens}

Remainings ==
    {l * Modulus + r : l \in 0..MaxLapse, r \in 0..MaxRem}

Calls == {"new", "get_index", "secs_at_index", "again_delay_secs_learn",
          "again_delay_secs_relearn", "hard_delay_secs", "good_delay_secs",
          "current_delay_secs", "remaining_for_good", "remaining_for_failed",
          "answer_again", "answer_hard", "answer_good"}

----------------------------------------------------------------------------
(* State machine *)

\* LearningSteps::new over any configured steps; the card's counter is
\* whatever was persisted
Init ==
    /\ steps \in StepSeqs
    /\ counter \in Remainings
    /\ run = -1
    /\ graduated = FALSE
    /\ call = "new"
    /\ ret = None

\* the methods are pure: a call records its result and changes nothing else

GetIndex ==
    /\ call' = "get_index"
    /\ ret' = get_index(steps, counter)
    /\ UNCHANGED <<steps, counter, run, graduated>>

SecsAtIndex ==
    \E index \in 0..(MaxCoreLen + 1) :
        /\ call' = "secs_at_index"
        /\ ret' = secs_at_index(steps, index)
        /\ UNCHANGED <<steps, counter, run, graduated>>

AgainDelaySecsLearn ==
    /\ call' = "again_delay_secs_learn"
    /\ ret' = again_delay_secs_learn(steps)
    /\ UNCHANGED <<steps, counter, run, graduated>>

AgainDelaySecsRelearn ==
    /\ call' = "again_delay_secs_relearn"
    /\ ret' = again_delay_secs_relearn(steps)
    /\ UNCHANGED <<steps, counter, run, graduated>>

HardDelaySecs ==
    /\ call' = "hard_delay_secs"
    /\ ret' = hard_delay_secs(steps, counter)
    /\ UNCHANGED <<steps, counter, run, graduated>>

GoodDelaySecs ==
    /\ call' = "good_delay_secs"
    /\ ret' = good_delay_secs(steps, counter)
    /\ UNCHANGED <<steps, counter, run, graduated>>

CurrentDelaySecs ==
    /\ call' = "current_delay_secs"
    /\ ret' = current_delay_secs(steps, counter)
    /\ UNCHANGED <<steps, counter, run, graduated>>

RemainingForGood ==
    /\ call' = "remaining_for_good"
    /\ ret' = remaining_for_good(steps, counter)
    /\ UNCHANGED <<steps, counter, run, graduated>>

RemainingForFailed ==
    /\ call' = "remaining_for_failed"
    /\ ret' = remaining_for_failed(steps)
    /\ UNCHANGED <<steps, counter, run, graduated>>

\* Again: the card restarts learning with the counter remaining_for_failed()
AnswerAgain ==
    /\ counter' = remaining_for_failed(steps)
    /\ run' = 0
    /\ graduated' = FALSE
    /\ call' = "answer_again"
    /\ ret' = again_delay_secs_learn(steps)
    /\ UNCHANGED steps

\* Hard: the card stays on its step
AnswerHard ==
    /\ ~graduated
    /\ call' = "answer_hard"
    /\ ret' = hard_delay_secs(steps, counter)
    /\ UNCHANGED <<steps, counter, run, graduated>>

\* Good: the counter is replaced by remaining_for_good(counter); no
\* good delay is graduation
AnswerGood ==
    /\ ~graduated
    /\ call' = "answer_good"
    /\ ret' = good_delay_secs(steps, counter)
    /\ counter' = remaining_for_good(steps, counter)
    /\ graduated' = ~IsSome(good_delay_secs(steps, counter))
    /\ run' = IF run >= 0 THEN run + 1 ELSE run
    /\ UNCHANGED steps

Next ==
    \/ GetIndex
    \/ SecsAtIndex
    \/ AgainDelaySecsLearn
    \/ AgainDelaySecsRelearn
    \/ HardDelaySecs
    \/ GoodDelaySecs
    \/ CurrentDelaySecs
    \/ RemainingForGood
    \/ RemainingForFailed
    \/ AnswerAgain
    \/ AnswerHard
    \/ AnswerGood

Spec == Init /\ [][Next]_vars

----------------------------------------------------------------------------
(* Properties *)

N == Len(steps)

\* exact arithmetic on u32 values, with a high limb that may exceed 16 bits
ExactSum(a, b) ==
    [hi |-> a.hi + b.hi + ((a.lo + b.lo) \div 65536), lo |-> (a.lo + b.lo) % 65536]
Clamp(w) == IF w.hi > 65535 THEN [hi |-> 65535, lo |-> 65535] ELSE w
Half(w) == [hi |-> w.hi \div 2, lo |-> ((w.hi % 2) * 65536 + w.lo) \div 2]
SecondsOf(i) == to_secs(steps[i + 1])

\* C1: for a non-empty step sequence, get_index(remaining) is an index in
\* 0 .. len-1, so secs_at_index of it is Some.
C1_IndexInRange ==
    (call = "get_index" /\ N > 0) =>
        /\ ret \in 0..(N - 1)
        /\ IsSome(secs_at_index(steps, ret))

\* reached: a counter whose low digits are 0, clamped to the last index of a
\* sequence of several steps
C1_Witness ==
    /\ call = "get_index"
    /\ N >= 3
    /\ counter % 1000 = 0
    /\ ret = N - 1

\* C2: for a non-empty step sequence, good_delay_secs is None exactly when
\* the derived index is the last one, and otherwise it is the seconds of the
\* step after the derived index.
C2_GoodDelay ==
    (call = "good_delay_secs" /\ N > 0) =>
        LET idx == get_index(steps, counter)
        IN  /\ (ret = None) <=> (idx = N - 1)
            /\ idx < N - 1 => ret = Some(SecondsOf(idx + 1))

\* reached: the test's [1, 10, 100] with remaining = 2, good = Some(6000)
C2_Witness ==
    /\ call = "good_delay_secs"
    /\ steps = <<One, Ten, Hundred>>
    /\ counter = 2
    /\ ret = Some(U32(6000))

\* C3: for a non-empty step sequence, hard_delay_secs at index 0 is
\* (current + next) / 2 with next the second step, or twice the current one
\* when there is no second step, the doubling and the sum saturating at
\* u32::MAX; at any other index it is the current step's delay, which is also
\* what current_delay_secs returns.
C3_HardDelay ==
    (call = "hard_delay_secs" /\ N > 0) =>
        LET idx == get_index(steps, counter)
            current == SecondsOf(idx)
            next == IF N > 1 THEN SecondsOf(1) ELSE Clamp(ExactSum(current, current))
        IN  IF idx = 0
            THEN ret = Some(Half(Clamp(ExactSum(current, next))))
            ELSE /\ ret = Some(current)
                 /\ ret = Some(current_delay_secs(steps, counter))

\* reached: one step of 3_000_000_000 seconds, where the doubling and the
\* sum both saturate and the result is u32::MAX / 2
C3_Witness ==
    /\ call = "hard_delay_secs"
    /\ steps = <<Big>>
    /\ ret = Some([hi |-> 32767, lo |-> 65535])

\* C4: counters that agree modulo 1000 give the same get_index,
\* hard_delay_secs, good_delay_secs, current_delay_secs and
\* remaining_for_good.
C4_LapseDigitsIgnored ==
    \A l \in 0..(MaxLapse + 1) :
        LET r2 == (counter % 1000) + l * 1000
        IN  /\ call = "get_index" => ret = get_index(steps, r2)
            /\ call = "hard_delay_secs" => ret = hard_delay_secs(steps, r2)
            /\ call = "good_delay_secs" => ret = good_delay_secs(steps, r2)
            /\ call = "current_delay_secs" => ret = current_delay_secs(steps, r2)
            /\ call = "remaining_for_good" => ret = remaining_for_good(steps, r2)

\* reached: a counter with lapse digits, 1002, on three steps
C4_Witness ==
    /\ call = "hard_delay_secs"
    /\ steps = <<One, Ten, Hundred>>
    /\ counter = 1002
    /\ ret = Some(U32(600))

\* C5: for every non-empty step sequence, of any length, the counter
\* written after a failure has the derived index 0 and the first step's delay
\* as its current delay.
C5_FailedIsStepZero ==
    (call = "remaining_for_failed" /\ N > 0) =>
        /\ get_index(steps, ret) = 0
        /\ current_delay_secs(steps, ret) = SecondsOf(0)

\* C6: for a non-empty step sequence and a derived index k, a Good leaves
\* N - (k + 1) steps and the derived index k + 1 when k < N - 1, and 0 steps
\* when k = N - 1; the result is never negative or wrapped.
C6_GoodAdvancesOne ==
    (call = "remaining_for_good" /\ N > 0) =>
        LET k == get_index(steps, counter)
        IN  /\ ret \in 0..N
            /\ k < N - 1 => (ret = N - (k + 1) /\ get_index(steps, ret) = k + 1)
            /\ k = N - 1 => ret = 0

\* reached: three steps, on the first one: two steps remain after a Good
C6_Witness ==
    /\ call = "remaining_for_good"
    /\ N = 3
    /\ counter = 3
    /\ ret = 2

\* C7: with exactly one step, hard_delay_secs differs from
\* Some(again_delay_secs_learn()).
C7_HardDiffersFromAgain ==
    (call = "hard_delay_secs" /\ N = 1) =>
        ret # Some(again_delay_secs_learn(steps))

\* C8 as stated: for a non-empty step sequence, every counter whose low
\* digits are 0 or more than the number of steps gives the last index.
C8_OutOfRangeIsLast ==
    (call = "get_index" /\ N > 0 /\ (counter % 1000) \notin 1..N) =>
        ret = N - 1

\* C8 amended: for a non-empty step sequence, low digits of 0 give the last
\* index and low digits above the number of steps give index 0.
C8_OutOfRangeIsNearest ==
    (call = "get_index" /\ N > 0) =>
        /\ counter % 1000 = 0 => ret = N - 1
        /\ counter % 1000 > N => ret = 0

\* reached: two steps and low digits 3, index 0
C8_Witness ==
    /\ call = "get_index"
    /\ N = 2
    /\ counter % 1000 = 3
    /\ ret = 0

\* C9: with no steps every query returns its fallback: 60 for
\* again_delay_secs_learn, None for again_delay_secs_relearn,
\* hard_delay_secs and good_delay_secs, 0 for current_delay_secs,
\* remaining_for_good and remaining_for_failed; and hard_delay_secs and
\* again_delay_secs_relearn are None only with no steps.
C9_EmptyFallbacks ==
    /\ N = 0 =>
        /\ call = "again_delay_secs_learn" => ret = [hi |-> 0, lo |-> 60]
        /\ call = "again_delay_secs_relearn" => ret = None
        /\ call = "hard_delay_secs" => ret = None
        /\ call = "good_delay_secs" => ret = None
        /\ call = "current_delay_secs" => ret = [hi |-> 0, lo |-> 0]
        /\ call = "remaining_for_good" => ret = 0
        /\ call = "remaining_for_failed" => ret = 0
    /\ (call \in {"hard_delay_secs", "again_delay_secs_relearn"} /\ ret = None)
        => N = 0

\* reached: no steps, a counter with lapse digits, the default of 60 seconds
C9_Witness ==
    /\ N = 0
    /\ counter = 1003
    /\ call = "again_delay_secs_learn"
    /\ ret = [hi |-> 0, lo |-> 60]

\* C10: with 1 <= N < 1000 steps, in a run of Good ratings that starts from
\* the counter remaining_for_failed(), the counter after k Goods is N - k,
\* good_delay_secs is Some for the first N - 1 Goods and None at the N-th,
\* which graduates the card with the counter 0, and at every counter of the
\* run good_delay_secs is None exactly when remaining_for_good is 0.
C10_GoodRunGraduates ==
    (N >= 1 /\ N < 1000 /\ run >= 0) =>
        /\ run <= N
        /\ counter = N - run
        /\ graduated <=> run = N
        /\ (call = "answer_good" /\ run >= 1) => (IsSome(ret) <=> run < N)
        /\ (good_delay_secs(steps, counter) = None)
               <=> (remaining_for_good(steps, counter) = 0)

\* reached: the third Good on three steps graduates the card
C10_Witness ==
    /\ N = 3
    /\ run = 3
    /\ call = "answer_good"
    /\ ret = None
    /\ graduated
    /\ counter = 0

====
